---- MODULE Spec2Model ----
(***************************************************************************)
(* Model of examples/timeseries/ipynb/timeseries_anomaly_detection.ipynb:  *)
(* the notebook's cells run top to bottom, one action per cell (the test   *)
(* cell is split into its statements).                                     *)
(*                                                                         *)
(* Arithmetic is exact.  A raw value is an integer.  The mean of n values  *)
(* with sum S is the rational [num |-> S, den |-> n].  np.std of cnt       *)
(* rationals num_k/den is sqrt(sq / cnt^3) / den with                      *)
(* sq = SUM (cnt*num_k - SUM num)^2, kept as [sq, cnt, den].  A normalised *)
(* value is [num, den, std], standing for (num/den)/std.  A prediction of  *)
(* the network is an integer q standing for (q/den)/std in the units of    *)
(* the value it reconstructs, and a per-window MAE is [nan, num], standing *)
(* for num / (TIME_STEPS * den * std); it is NaN when std is 0 (0/0).      *)
(* Indices in the definitions are Python's (from 0); sequences are TLA+'s  *)
(* (from 1), so element i of a Python list s is s[i + 1].                  *)
(***************************************************************************)
EXTENDS Integers, Sequences, FiniteSets

\* ---- bounds ----
MaxT == 2
MaxTrainLen == 3
MaxTestLen == 3
MaxSeqT == 3
MaxSeqLen == 5
MaxLoopT == 3
MaxLoopLen == 7

VARIABLES
    pc,                     \* the statement the notebook is about to run
    bound,                  \* names bound in the kernel's namespace so far
    TIME_STEPS,
    training_raw,           \* df_small_noise.value
    test_raw,               \* df_daily_jumpsup.value
    training_value, training_mean, training_std,
    x_train, x_train_pred, train_mae_loss, threshold,
    test_value, x_test, x_test_pred, test_mae_loss,
    anomalies,
    data_idx, anomalous_data_indices

vars == <<pc, bound, TIME_STEPS, training_raw, test_raw, training_value,
          training_mean, training_std, x_train, x_train_pred, train_mae_loss,
          threshold, test_value, x_test, x_test_pred, test_mae_loss,
          anomalies, data_idx, anomalous_data_indices>>

\* ---- helpers ----
RECURSIVE SumSeq(_)
SumSeq(s) == IF s = <<>> THEN 0 ELSE s[1] + SumSeq(Tail(s))

Abs(a) == IF a < 0 THEN -a ELSE a

SeqsUpTo(S, lo, hi) == UNION {[1..n -> S] : n \in lo..hi}

\* the raw readings a series is drawn from, and the numerators the network's
\* outputs are drawn from
RawVals == {0, 1}
PredVals == {-1, 1}

NoMean == [num |-> 0, den |-> 1]
NoStd == [sq |-> 1, cnt |-> 1, den |-> 1]
NoLoss == [nan |-> FALSE, num |-> 0]

\* np.mean of a list of integers
np_mean(values) == [num |-> SumSeq(values), den |-> Len(values)]

\* np.std of a sequence of rationals with the common denominator den
np_std(nums, den) ==
    LET cnt == Len(nums)
        tot == SumSeq(nums)
        dev == [k \in 1..cnt |-> (cnt * nums[k] - tot) * (cnt * nums[k] - tot)]
    IN [sq |-> SumSeq(dev), cnt |-> cnt, den |-> den]

\* normalize(values): values -= mean; std = np.std(values); values /= std
normalize(values) ==
    LET mean == np_mean(values)
        centred == [k \in 1..Len(values) |-> mean.den * values[k] - mean.num]
        std == np_std(centred, mean.den)
    IN [values |-> [k \in 1..Len(values) |->
                       [num |-> centred[k], den |-> mean.den, std |-> std]],
        mean |-> mean,
        std |-> std]

\* normalize_test(values, mean, std): values -= mean; values /= std
\* (variant: the series normalised with its own mean and std)
normalize_test_own(values, mean, std) == normalize(values).values
normalize_test(values, mean, std) ==
    [k \in 1..Len(values) |->
        [num |-> mean.den * values[k] - mean.num, den |-> mean.den, std |-> std]]

\* the list `output` of create_sequences before np.expand_dims
WindowCount(values, time_steps) ==
    IF Len(values) - time_steps > 0 THEN Len(values) - time_steps ELSE 0

\* create_sequences(values, time_steps): window i is values[i : i + time_steps],
\* each entry wrapped as a one-feature vector by np.expand_dims(output, axis=2)
\* (variant: consecutive windows two values apart)
create_sequences_stride2(values, time_steps) ==
    [w \in 1..WindowCount(values, time_steps) |->
        [p \in 1..time_steps |->
            <<values[IF 2 * (w - 1) + p <= Len(values)
                     THEN 2 * (w - 1) + p ELSE Len(values)]>>]]
create_sequences(values, time_steps) ==
    [w \in 1..WindowCount(values, time_steps) |->
        [p \in 1..time_steps |-> <<values[(w - 1) + p]>>]]

\* np.expand_dims(output, axis=2) raises AxisError on the 1-D array of an
\* empty `output`
create_sequences_raises(values, time_steps) ==
    WindowCount(values, time_steps) = 0

\* the outputs model.predict may give for input x: one integer per entry
Predictions(x) ==
    [1..Len(x) -> [1..TIME_STEPS -> {<<q>> : q \in PredVals}]]

\* np.mean(np.abs(pred - x), axis=1): one one-feature vector per window
mae_loss(pred, x) ==
    [w \in 1..Len(x) |->
        <<[nan |-> x[w][1][1].std.sq = 0,
           num |-> IF x[w][1][1].std.sq = 0 THEN 0
                   ELSE SumSeq([p \in 1..Len(x[w]) |->
                                   Abs(pred[w][p][1] - x[w][p][1].num)])]>>]

\* a > b on floats: false when either side is NaN
Gt(a, b) == ~a.nan /\ ~b.nan /\ a.num > b.num

\* np.max(train_mae_loss): NaN if any entry is NaN, else the largest entry
np_max(losses) ==
    IF \E w \in 1..Len(losses) : losses[w][1].nan
    THEN [nan |-> TRUE, num |-> 0]
    ELSE CHOOSE m \in {losses[w][1] : w \in 1..Len(losses)} :
            \A w \in 1..Len(losses) : losses[w][1].num <= m.num

\* test_mae_loss > threshold, elementwise
\* (variant: >= in place of >)
IsAnomalyGe(loss, thr) == ~loss.nan /\ ~thr.nan /\ loss.num >= thr.num
IsAnomaly(loss, thr) == Gt(loss, thr)

\* ---- the notebook, cell by cell ----
Unset ==
    /\ bound = {}
    /\ training_value = <<>> /\ training_mean = NoMean /\ training_std = NoStd
    /\ x_train = <<>> /\ x_train_pred = <<>> /\ train_mae_loss = <<>>
    /\ threshold = NoLoss
    /\ test_value = <<>> /\ x_test = <<>> /\ x_test_pred = <<>>
    /\ test_mae_loss = <<>>
    /\ anomalies = <<>>
    /\ data_idx = 0 /\ anomalous_data_indices = <<>>

Init ==
    /\ pc = "normalize"
    /\ TIME_STEPS \in 1..MaxT
    /\ training_raw \in SeqsUpTo(RawVals, 1, MaxTrainLen)
    /\ test_raw \in SeqsUpTo(RawVals, 1, MaxTestLen)
    /\ Unset

\* training_value, training_mean, training_std = normalize(training_value)
NormalizeCell ==
    /\ pc = "normalize"
    /\ training_value' = normalize(training_raw).values
    /\ training_mean' = normalize(training_raw).mean
    /\ training_std' = normalize(training_raw).std
    /\ bound' = bound \cup {"training_value", "training_mean", "training_std"}
    /\ pc' = "create_train"
    /\ UNCHANGED <<TIME_STEPS, training_raw, test_raw, x_train, x_train_pred,
                   train_mae_loss, threshold, test_value, x_test, x_test_pred,
                   test_mae_loss, anomalies, data_idx, anomalous_data_indices>>

\* x_train = create_sequences(training_value)
CreateTrainSequences ==
    /\ pc = "create_train"
    /\ IF create_sequences_raises(training_value, TIME_STEPS)
       THEN /\ pc' = "error"
            /\ UNCHANGED <<x_train, bound>>
       ELSE /\ x_train' = create_sequences(training_value, TIME_STEPS)
            /\ bound' = bound \cup {"x_train"}
            /\ pc' = "fit"
    /\ UNCHANGED <<TIME_STEPS, training_raw, test_raw, training_value,
                   training_mean, training_std, x_train_pred, train_mae_loss,
                   threshold, test_value, x_test, x_test_pred, test_mae_loss,
                   anomalies, data_idx, anomalous_data_indices>>

\* model = keras.Sequential(...); history = model.fit(x_train, x_train, ...)
FitCell ==
    /\ pc = "fit"
    /\ bound' = bound \cup {"model", "history"}
    /\ pc' = "threshold"
    /\ UNCHANGED <<TIME_STEPS, training_raw, test_raw, training_value,
                   training_mean, training_std, x_train, x_train_pred,
                   train_mae_loss, threshold, test_value, x_test, x_test_pred,
                   test_mae_loss, anomalies, data_idx, anomalous_data_indices>>

\* x_train_pred = model.predict(x_train); train_mae_loss = ...;
\* threshold = np.max(train_mae_loss)
ThresholdCell ==
    /\ pc = "threshold"
    /\ \E pred \in Predictions(x_train) :
          /\ x_train_pred' = pred
          /\ train_mae_loss' = mae_loss(pred, x_train)
          /\ threshold' = np_max(mae_loss(pred, x_train))
    /\ bound' = bound \cup {"x_train_pred", "train_mae_loss", "threshold"}
    /\ pc' = "normalize_test"
    /\ UNCHANGED <<TIME_STEPS, training_raw, test_raw, training_value,
                   training_mean, training_std, x_train, test_value, x_test,
                   x_test_pred, test_mae_loss, anomalies, data_idx,
                   anomalous_data_indices>>

\* test_value = normalize_test(test_value, training_mean, training_std)
NormalizeTest ==
    /\ pc = "normalize_test"
    /\ test_value' = normalize_test(test_raw, training_mean, training_std)
    /\ bound' = bound \cup {"test_value"}
    /\ pc' = "create_test"
    /\ UNCHANGED <<TIME_STEPS, training_raw, test_raw, training_value,
                   training_mean, training_std, x_train, x_train_pred,
                   train_mae_loss, threshold, x_test, x_test_pred,
                   test_mae_loss, anomalies, data_idx, anomalous_data_indices>>

\* x_test = create_sequences(test_value)
CreateTestSequences ==
    /\ pc = "create_test"
    /\ IF create_sequences_raises(test_value, TIME_STEPS)
       THEN /\ pc' = "error"
            /\ UNCHANGED <<x_test, bound>>
       ELSE /\ x_test' = create_sequences(test_value, TIME_STEPS)
            /\ bound' = bound \cup {"x_test"}
            /\ pc' = "test_mae"
    /\ UNCHANGED <<TIME_STEPS, training_raw, test_raw, training_value,
                   training_mean, training_std, x_train, x_train_pred,
                   train_mae_loss, threshold, test_value, x_test_pred,
                   test_mae_loss, anomalies, data_idx, anomalous_data_indices>>

\* x_test_pred = model.predict(x_test); test_mae_loss = np.mean(...);
\* test_mae_loss = test_mae_loss.reshape((-1))
TestMae ==
    /\ pc = "test_mae"
    /\ \E pred \in Predictions(x_test) :
          /\ x_test_pred' = pred
          /\ test_mae_loss' = [w \in 1..Len(x_test) |->
                                  mae_loss(pred, x_test)[w][1]]
    /\ bound' = bound \cup {"x_test_pred", "test_mae_loss"}
    /\ pc' = "classify"
    /\ UNCHANGED <<TIME_STEPS, training_raw, test_raw, training_value,
                   training_mean, training_std, x_train, x_train_pred,
                   train_mae_loss, threshold, test_value, x_test, anomalies,
                   data_idx, anomalous_data_indices>>

\* anomalies = (test_mae_loss > threshold).tolist()
Classify ==
    /\ pc = "classify"
    /\ anomalies' = [w \in 1..Len(test_mae_loss) |->
                        IsAnomaly(test_mae_loss[w], threshold)]
    /\ bound' = bound \cup {"anomalies"}
    /\ pc' = "loop"
    /\ data_idx' = TIME_STEPS - 1
    /\ UNCHANGED <<TIME_STEPS, training_raw, test_raw, training_value,
                   training_mean, training_std, x_train, x_train_pred,
                   train_mae_loss, threshold, test_value, x_test, x_test_pred,
                   test_mae_loss, anomalous_data_indices>>

\* range(TIME_STEPS - 1, len(test_value) - TIME_STEPS + 1): first value, and
\* the value the range stops before
LoopStart == TIME_STEPS - 1
\* (variant: the range stops one index earlier)
LoopEndShort == Len(test_value) - TIME_STEPS
LoopEnd == Len(test_value) - TIME_STEPS + 1

\* time_series = range(data_idx - TIME_STEPS + 1, data_idx)
\* (variant: the run starts one window later)
time_series_short(i) == (i - TIME_STEPS + 2)..(i - 1)
time_series(i) == (i - TIME_STEPS + 1)..(i - 1)

\* one iteration of the for loop over data_idx
LoopStep ==
    /\ pc = "loop"
    /\ data_idx < LoopEnd
    /\ anomalous_data_indices' =
          IF \A j \in time_series(data_idx) : anomalies[j + 1]
          THEN Append(anomalous_data_indices, data_idx)
          ELSE anomalous_data_indices
    /\ data_idx' = data_idx + 1
    /\ UNCHANGED <<pc, bound, TIME_STEPS, training_raw, test_raw,
                   training_value, training_mean, training_std, x_train,
                   x_train_pred, train_mae_loss, threshold, test_value, x_test,
                   x_test_pred, test_mae_loss, anomalies>>

\* the range is exhausted
LoopExit ==
    /\ pc = "loop"
    /\ data_idx >= LoopEnd
    /\ pc' = "done"
    /\ bound' = bound \cup {"anomalous_data_indices"}
    /\ UNCHANGED <<TIME_STEPS, training_raw, test_raw, training_value,
                   training_mean, training_std, x_train, x_train_pred,
                   train_mae_loss, threshold, test_value, x_test, x_test_pred,
                   test_mae_loss, anomalies, data_idx, anomalous_data_indices>>

Next ==
    \/ NormalizeCell
    \/ CreateTrainSequences
    \/ FitCell
    \/ ThresholdCell
    \/ NormalizeTest
    \/ CreateTestSequences
    \/ TestMae
    \/ Classify
    \/ LoopStep
    \/ LoopExit

Spec == Init /\ [][Next]_vars

\* ---- create_sequences on its own: the notebook up to x_train, over ----
\* ---- longer training series and window lengths                    ----
InitSeq ==
    /\ pc = "normalize"
    /\ TIME_STEPS \in 1..MaxSeqT
    /\ training_raw \in SeqsUpTo(RawVals, 1, MaxSeqLen)
    /\ test_raw \in SeqsUpTo(RawVals, 1, 1)
    /\ Unset

NextSeq ==
    \/ NormalizeCell
    \/ CreateTrainSequences

SpecSeq == InitSeq /\ [][NextSeq]_vars

\* ---- the point-level loop on its own: every window mask over every ----
\* ---- series length, as left by the cells before the loop           ----
BoundBeforeLoop ==
    {"training_value", "training_mean", "training_std", "x_train", "model",
     "history", "x_train_pred", "train_mae_loss", "threshold", "test_value",
     "x_test", "x_test_pred", "test_mae_loss", "anomalies"}

InitLoop ==
    /\ pc = "loop"
    /\ bound = BoundBeforeLoop
    /\ TIME_STEPS \in 1..MaxLoopT
    /\ \E n \in 2..MaxLoopLen :
          /\ n > TIME_STEPS
          /\ test_raw = [k \in 1..n |-> 0]
          /\ anomalies \in [1..(n - TIME_STEPS) -> BOOLEAN]
    /\ test_value = normalize_test(test_raw, NoMean, NoStd)
    /\ training_raw = <<>>
    /\ training_value = <<>> /\ training_mean = NoMean /\ training_std = NoStd
    /\ x_train = <<>> /\ x_train_pred = <<>> /\ train_mae_loss = <<>>
    /\ threshold = NoLoss
    /\ x_test = <<>> /\ x_test_pred = <<>> /\ test_mae_loss = <<>>
    /\ data_idx = LoopStart
    /\ anomalous_data_indices = <<>>

NextLoop ==
    \/ LoopStep
    \/ LoopExit

SpecLoop == InitLoop /\ [][NextLoop]_vars

\* ---- properties ----
Flagged == {anomalous_data_indices[k] : k \in 1..Len(anomalous_data_indices)}

\* window start j (from 0) exists in the mask and is anomalous
WindowExists(j) == j >= 0 /\ j < Len(anomalies)

InLoop == pc \in {"loop", "done"}

\* C1: every data index the loop has appended has all the existing windows
\* that cover it anomalous, window i itself included (starts i-T+1 .. i).
C1_FlaggedHasAllCoveringWindowsAnomalous ==
    InLoop =>
        \A i \in Flagged :
            \A j \in (i - TIME_STEPS + 1)..i :
                WindowExists(j) => anomalies[j + 1]

\* C5: once the loop is over, every index i in T-1 .. n-T whose existing
\* windows with start in i-T+1 .. i are all anomalous has been appended.
C5_AllCoveringWindowsAnomalousImpliesFlagged ==
    pc = "done" =>
        \A i \in (TIME_STEPS - 1)..(Len(test_value) - TIME_STEPS) :
            (\A j \in (i - TIME_STEPS + 1)..i :
                WindowExists(j) => anomalies[j + 1])
            => i \in Flagged

C5_Witness ==
    /\ pc = "done"
    /\ TIME_STEPS = 3
    /\ \E i \in Flagged :
          /\ WindowExists(i)
          /\ \A j \in (i - 2)..i : anomalies[j + 1]
    /\ \E w \in 1..Len(anomalies) : ~anomalies[w]

\* an anomalous window whose neighbours, where they exist, are not anomalous
Isolated(j) ==
    /\ anomalies[j + 1]
    /\ WindowExists(j - 1) => ~anomalies[j]
    /\ WindowExists(j + 1) => ~anomalies[j + 2]

TrainCreated == pc \notin {"normalize", "create_train"}
TestCreated == "test_value" \in bound /\ pc # "create_test"

\* out holds every window of T contiguous values, the last one included
AllWindows(values, out) ==
    /\ Len(out) = Len(values) - TIME_STEPS + 1
    /\ \A s \in 0..(Len(values) - TIME_STEPS) :
          \A p \in 0..(TIME_STEPS - 1) : out[s + 1][p + 1][1] = values[s + p + 1]

\* C2: for n >= time_steps values create_sequences returns the n-time_steps+1
\* windows with start indices 0 .. n-time_steps, the last window included.
C2_ReturnsEveryWindow ==
    /\ (TrainCreated /\ Len(training_value) >= TIME_STEPS)
          => ("x_train" \in bound /\ AllWindows(training_value, x_train))
    /\ (TestCreated /\ Len(test_value) >= TIME_STEPS)
          => ("x_test" \in bound /\ AllWindows(test_value, x_test))

\* the number of returned windows that contain data index i
Appearances(out, i) ==
    Cardinality({w \in 0..(Len(out) - 1) : w <= i /\ i < w + Len(out[w + 1])})

\* C3: every index i with time_steps-1 <= i <= n-time_steps appears in exactly
\* time_steps of the returned windows.
C3_InteriorValueInTimeStepsWindows ==
    /\ "x_train" \in bound =>
          \A i \in (TIME_STEPS - 1)..(Len(training_value) - TIME_STEPS) :
              Appearances(x_train, i) = TIME_STEPS
    /\ "x_test" \in bound =>
          \A i \in (TIME_STEPS - 1)..(Len(test_value) - TIME_STEPS) :
              Appearances(x_test, i) = TIME_STEPS

\* window w of out is the slice of T values starting at w, in order, each
\* entry a vector of one feature
ContiguousSlices(values, out) ==
    \A w \in 0..(Len(out) - 1) :
        /\ Len(out[w + 1]) = TIME_STEPS
        /\ \A p \in 0..(TIME_STEPS - 1) :
              /\ Len(out[w + 1][p + 1]) = 1
              /\ out[w + 1][p + 1][1] = values[w + p + 1]

\* C6: for n > time_steps every returned window k has exactly time_steps
\* entries, entry p being values[k+p] carried as one feature.
C6_WindowsAreContiguousSlices ==
    /\ "x_train" \in bound =>
          (Len(x_train) > 0 /\ ContiguousSlices(training_value, x_train))
    /\ "x_test" \in bound =>
          (Len(x_test) > 0 /\ ContiguousSlices(test_value, x_test))

C6_Witness ==
    /\ "x_train" \in bound
    /\ TIME_STEPS = 2
    /\ Len(x_train) >= 2
    /\ training_value[1] # training_value[2]
    /\ training_value[2] # training_value[3]
    /\ x_train[2] = <<<<training_value[2]>>, <<training_value[3]>>>>

\* C4: the threshold is one of the training MAE values and none of them
\* exceeds it; a test window is an anomaly exactly when its MAE is strictly
\* greater than the threshold (a comparison with NaN is false).
C4_ThresholdIsMaxAndStrict ==
    /\ "threshold" \in bound =>
          /\ \E w \in 1..Len(train_mae_loss) : train_mae_loss[w][1] = threshold
          /\ \A w \in 1..Len(train_mae_loss) :
                \/ train_mae_loss[w][1].nan
                \/ threshold.nan
                \/ train_mae_loss[w][1].num <= threshold.num
          /\ Len(train_mae_loss) = Len(x_train)
    /\ "anomalies" \in bound =>
          /\ Len(anomalies) = Len(x_test)
          /\ \A w \in 1..Len(anomalies) :
                anomalies[w] <=>
                    /\ ~test_mae_loss[w].nan
                    /\ ~threshold.nan
                    /\ test_mae_loss[w].num > threshold.num

C4_Witness ==
    /\ "anomalies" \in bound
    /\ ~threshold.nan
    /\ \E w \in 1..Len(anomalies) :
          test_mae_loss[w].num = threshold.num /\ ~anomalies[w]
    /\ \E w \in 1..Len(anomalies) : anomalies[w]
    /\ \E w \in 1..Len(train_mae_loss) :
          train_mae_loss[w][1].num < threshold.num

TestStage ==
    {"normalize_test", "create_test", "test_mae", "classify", "loop"}

\* the test series is normalised with the training mean and std, the threshold
\* exists before anything is classified and only after the fit
C8_State ==
    /\ "training_mean" \in bound =>
          /\ training_mean =
                [num |-> SumSeq(training_raw), den |-> Len(training_raw)]
          /\ training_std = normalize(training_raw).std
    /\ "test_value" \in bound =>
          /\ Len(test_value) = Len(test_raw)
          /\ \A k \in 1..Len(test_raw) :
                test_value[k] =
                    [num |-> training_mean.den * test_raw[k] - training_mean.num,
                     den |-> training_mean.den,
                     std |-> training_std]
    /\ "anomalies" \in bound => "threshold" \in bound
    /\ "threshold" \in bound => "history" \in bound

\* a step of the test-data stage changes none of the three
C8_Frame ==
    pc \in TestStage =>
        /\ threshold' = threshold
        /\ training_mean' = training_mean
        /\ training_std' = training_std

\* C8: the threshold and the normalisation parameters come from the training
\* data only: the test-data stage leaves threshold, training_mean and
\* training_std unchanged, the test series is normalised with the training
\* mean and std, and the threshold is computed after the fit and before any
\* test window is classified.
C8_StaticTrainingParameters == [](C8_State) /\ [][C8_Frame]_vars

C8_Witness ==
    /\ pc = "done"
    /\ test_value # normalize(test_raw).values
    /\ training_std.sq # 0
    /\ \E w \in 1..Len(anomalies) : anomalies[w]

====
